---- MODULE Spec2Model ----
(***************************************************************************)
(* A model of src/KmlLoader.js: the KML location extractor                 *)
(* (parseKmlLocations, extractTimeFromDescription, parseTimeOnDate) and    *)
(* the time-indexed animation layer L.TimeDimension.Layer.KmlLocations     *)
(* (initialize, onAdd, onRemove, _update, _updateAnimatedElements).        *)
(*                                                                         *)
(* Time is scaled: event timestamps are the even numbers 2, 4, ...; the    *)
(* current time of the time control ranges over every integer around them, *)
(* as the real control's milliseconds range between the events' minutes.   *)
(* JavaScript numbers are modelled exactly (rationals, NaN, +/-Infinity);  *)
(* floating-point rounding of the quotient is not modelled.                *)
(***************************************************************************)
EXTENDS Integers, Sequences, FiniteSets

VARIABLES
    inputEvents,       \* the timelineEvents argument of initialize, as passed
    _locations,        \* this._locations
    _timelineEvents,   \* this._timelineEvents (sorted in place by initialize)
    _availableTimes,   \* this._availableTimes
    _gpsTrailCoords,   \* this._gpsTrailCoords
    _map,              \* this._map is set (the layer is on a map)
    _timeDimension,    \* this._timeDimension is set
    _staticLayers,     \* layers of the this._staticLayers group
    _animatedMarkers,  \* layers of the this._animatedMarkers group
    _gpsTrailLayer,    \* layers of the this._gpsTrailLayer group
    mapLayers,         \* which of the three groups the map holds
    tdAvailableTimes,  \* the time control: <<>> or <<the published list>>
    tdCurrentTime,     \* the time control: <<>> or <<the time the layer set>>
    tdCalls,           \* calls made to the time control by the last handler
    last,              \* locals of the last run of _updateAnimatedElements
    handler,           \* the last handler run, and the events it fired
    nAdds,             \* number of onAdd calls so far
    given,             \* extractor: the time the description was written from
    description,       \* extractor: a placemark's description text
    timeStr,           \* extractor: result of extractTimeFromDescription
    timestamp,         \* extractor: result of parseTimeOnDate
    kmlDoc,            \* extractor: the parsed document
    locations,         \* extractor: result of parseKmlLocations
    pc                 \* extractor: position of the run

ctlVars == <<inputEvents, _locations, _timelineEvents, _availableTimes,
             _gpsTrailCoords, _map, _timeDimension, _staticLayers,
             _animatedMarkers, _gpsTrailLayer, mapLayers, tdAvailableTimes,
             tdCurrentTime, tdCalls, last, handler, nAdds>>
exVars == <<given, description, timeStr, timestamp, kmlDoc, locations, pc>>
vars == <<ctlVars, exVars>>

(***************************************************************************)
(* Bounds                                                                  *)
(***************************************************************************)
MaxEvents == 3
MaxLocs == 2
MaxAdds == 2
MaxSpaces == 2
MaxGeometries == 3

EventTime(k) == 2 * k
EventTimes == {EventTime(k) : k \in 1..MaxEvents}
CurrentTimes == 1..(EventTime(MaxEvents) + 1)

RECURSIVE SeqsUpTo(_, _)
SeqsUpTo(S, n) ==
    IF n = 0 THEN {<<>>}
    ELSE LET shorter == SeqsUpTo(S, n - 1)
         IN  shorter \cup {Append(s, x) : s \in {q \in shorter : Len(q) = n - 1}, x \in S}

Min(a, b) == IF a <= b THEN a ELSE b
Max(a, b) == IF a >= b THEN a ELSE b

(***************************************************************************)
(* JavaScript numbers: an integer, NaN, Infinity or -Infinity.             *)
(***************************************************************************)
Num(v) == [k |-> "num", v |-> v]
NaN == [k |-> "NaN", v |-> 0]
PosInf == [k |-> "Infinity", v |-> 0]
NegInf == [k |-> "-Infinity", v |-> 0]

(***************************************************************************)
(* Text: a string is a sequence of characters; null is <<>> and a value v  *)
(* is <<v>>.                                                               *)
(***************************************************************************)
Null == <<>>
Some(v) == <<v>>

Digits == {"0", "1", "2", "3", "4", "5", "6", "7", "8", "9"}
DigitValue(c) ==
    CASE c = "0" -> 0 [] c = "1" -> 1 [] c = "2" -> 2 [] c = "3" -> 3 [] c = "4" -> 4
      [] c = "5" -> 5 [] c = "6" -> 6 [] c = "7" -> 7 [] c = "8" -> 8 [] c = "9" -> 9

\* \s of the patterns, over the characters of the texts used here
Whitespace == {" "}

\* String.prototype.toLowerCase, over the letters of the texts used here
LowerChar(c) ==
    CASE c = "A" -> "a" [] c = "M" -> "m" [] c = "P" -> "p" [] c = "T" -> "t"
      [] c = "I" -> "i" [] c = "E" -> "e" [] c = "X" -> "x" [] c = "R" -> "r"
      [] c = "O" -> "o" [] OTHER -> c
ToLowerCase(str) == [i \in 1..Len(str) |-> LowerChar(str[i])]

\* String.prototype.trim
RECURSIVE TrimStart(_)
TrimStart(str) ==
    IF str # <<>> /\ Head(str) \in Whitespace THEN TrimStart(Tail(str)) ELSE str
RECURSIVE TrimEnd(_)
TrimEnd(str) ==
    IF str # <<>> /\ str[Len(str)] \in Whitespace
    THEN TrimEnd(SubSeq(str, 1, Len(str) - 1)) ELSE str
Trim(str) == TrimEnd(TrimStart(str))

\* the literal lit stands at position p of str
StartsWith(str, p, lit) ==
    /\ p >= 1
    /\ p + Len(lit) - 1 <= Len(str)
    /\ SubSeq(str, p, p + Len(lit) - 1) = lit
\* String.prototype.includes
Includes(str, lit) == \E p \in 1..Len(str) : StartsWith(str, p, lit)
DigitAt(str, p) == p >= 1 /\ p <= Len(str) /\ str[p] \in Digits
\* parseInt of a string of digits
RECURSIVE ParseInt(_)
ParseInt(str) ==
    IF str = <<>> THEN 0
    ELSE 10 * ParseInt(SubSeq(str, 1, Len(str) - 1)) + DigitValue(str[Len(str)])

\* \s* from position p: the first position at or after p that holds no whitespace
RECURSIVE SkipSpaces(_, _)
SkipSpaces(str, p) ==
    IF p <= Len(str) /\ str[p] \in Whitespace THEN SkipSpaces(str, p + 1) ELSE p

\* (am|pm|a\.m\.|p\.m\.) in the order of the alternation
Periods == << <<"a", "m">>, <<"p", "m">>, <<"a", ".", "m", ".">>, <<"p", ".", "m", ".">> >>
\* the first alternative that stands at p of the lower-cased text, or 0
PeriodAt(lower, p) ==
    IF \E k \in 1..Len(Periods) : StartsWith(lower, p, Periods[k])
    THEN CHOOSE k \in 1..Len(Periods) :
            /\ StartsWith(lower, p, Periods[k])
            /\ \A j \in 1..(k - 1) : ~StartsWith(lower, p, Periods[j])
    ELSE 0

(***************************************************************************)
(* parseTimeOnDate (lines 20-46).  The result is the Date as minutes from  *)
(* midnight of the base date: setHours(hours, minutes, 0, 0).              *)
(***************************************************************************)
FirstDigit(str) ==
    IF \E p \in 1..Len(str) : DigitAt(str, p)
    THEN CHOOSE p \in 1..Len(str) : DigitAt(str, p) /\ \A q \in 1..(p - 1) : ~DigitAt(str, q)
    ELSE 0

\* lines 36-41
To24Hour(hours, period) ==
    IF Includes(period, <<"p", "m">>) /\ hours # 12 THEN hours + 12
    ELSE IF Includes(period, <<"a", "m">>) /\ hours = 12 THEN 0
    ELSE hours

ParseTimeOnDate(str) ==
    IF str = Null \/ str = Some(<<>>) THEN Null
    ELSE LET lower == Trim(ToLowerCase(str[1]))
             p == FirstDigit(lower)
         IN  IF p = 0 THEN Null
             ELSE LET n == IF DigitAt(lower, p + 1) THEN 2 ELSE 1
                      q == p + n
                      hasMinutes == /\ StartsWith(lower, q, <<":">>)
                                    /\ DigitAt(lower, q + 1) /\ DigitAt(lower, q + 2)
                      r == SkipSpaces(lower, IF hasMinutes THEN q + 3 ELSE q)
                      k == PeriodAt(lower, r)
                      hours == ParseInt(SubSeq(lower, p, q - 1))
                      minutes == IF hasMinutes THEN ParseInt(SubSeq(lower, q + 1, q + 2)) ELSE 0
                      period == IF k = 0 THEN <<"a", "m">> ELSE Periods[k]
                  IN  Some(To24Hour(hours, period) * 60 + minutes)

(***************************************************************************)
(* extractTimeFromDescription (lines 49-70)                                *)
(***************************************************************************)
\* \d{1,2}:\d{2} at p: the position after it, or 0.  Two digits are tried first.
ClockAt(str, p) ==
    IF /\ DigitAt(str, p) /\ DigitAt(str, p + 1) /\ StartsWith(str, p + 2, <<":">>)
       /\ DigitAt(str, p + 3) /\ DigitAt(str, p + 4)
    THEN p + 5
    ELSE IF /\ DigitAt(str, p) /\ StartsWith(str, p + 1, <<":">>)
            /\ DigitAt(str, p + 2) /\ DigitAt(str, p + 3)
         THEN p + 4
         ELSE 0

\* \d{1,2}:\d{2}\s*(?:am|pm|a\.m\.|p\.m\.) at p: the position after it, or 0
TimeAt(lower, p) ==
    LET e == ClockAt(lower, p)
        r == SkipSpaces(lower, e)
    IN  IF e = 0 \/ PeriodAt(lower, r) = 0 THEN 0
        ELSE r + Len(Periods[PeriodAt(lower, r)])

NoMatch == <<0, 0>>
\* Pattern k of lines 54-60 tried at position p of the (case-folded) text:
\* the span <<first, after>> of its group, or NoMatch.
PatternAt(k, lower, p) ==
    LET lit == CASE k = 1 -> <<"a", "t">>
                 [] k = 2 -> <<"t", "i", "m", "e", ":">>
                 [] k = 3 -> <<>>
                 [] k = 4 -> <<"~">>
                 [] OTHER -> <<"a", "p", "p", "r", "o", "x", ".">>
        g == IF k = 4 THEN p + Len(lit) ELSE SkipSpaces(lower, p + Len(lit))
        spaced == k # 1 \/ g > p + Len(lit)
        e == IF k <= 3 THEN TimeAt(lower, g) ELSE ClockAt(lower, g)
    IN  IF StartsWith(lower, p, lit) /\ spaced /\ e # 0 THEN <<g, e>> ELSE NoMatch

\* the number of patterns in the list of lines 54-60
NumPatterns == 5

\* description.match(pattern): the leftmost match
MatchPattern(k, lower) ==
    IF \E p \in 1..Len(lower) : PatternAt(k, lower, p) # NoMatch
    THEN LET p == CHOOSE p \in 1..Len(lower) :
                     /\ PatternAt(k, lower, p) # NoMatch
                     /\ \A q \in 1..(p - 1) : PatternAt(k, lower, q) = NoMatch
         IN  PatternAt(k, lower, p)
    ELSE NoMatch

RECURSIVE FirstPattern(_, _, _)
FirstPattern(text, lower, k) ==
    IF k > NumPatterns THEN Null
    ELSE LET m == MatchPattern(k, lower)
         IN  IF m # NoMatch THEN Some(SubSeq(text, m[1], m[2] - 1))
             ELSE FirstPattern(text, lower, k + 1)

ExtractTimeFromDescription(text) ==
    IF text = <<>> THEN Null ELSE FirstPattern(text, ToLowerCase(text), 1)

(***************************************************************************)
(* initialize (lines 221-242)                                              *)
(***************************************************************************)
\* A timeline event: its position in the list passed in, and its timestamp.
\* The position stands for label, lat, lng and phone, which the sort carries along.
Event(i, ts) == [id |-> i, timestamp |-> ts]

\* Array.prototype.sort with the comparator a.timestamp - b.timestamp: the
\* sort is stable, so an element goes after every element it does not precede.
RECURSIVE InsertSorted(_, _)
InsertSortedUnstable(sorted, e) ==
    IF sorted = <<>> THEN <<e>>
    ELSE IF e.timestamp - Head(sorted).timestamp <= 0
         THEN <<e>> \o sorted
         ELSE <<Head(sorted)>> \o InsertSorted(Tail(sorted), e)
InsertSorted(sorted, e) ==
    IF sorted = <<>> THEN <<e>>
    ELSE IF e.timestamp - Head(sorted).timestamp < 0
         THEN <<e>> \o sorted
         ELSE <<Head(sorted)>> \o InsertSorted(Tail(sorted), e)

RECURSIVE SortEvents(_)
SortEvents(events) ==
    IF events = <<>> THEN <<>>
    ELSE InsertSorted(SortEvents(SubSeq(events, 1, Len(events) - 1)), events[Len(events)])

\* this._timelineEvents.map(e => e.timestamp.getTime())
RECURSIVE DistinctTimes(_)
DistinctTimes(events) ==
    IF events = <<>> THEN <<>>
    ELSE LET rest == DistinctTimes(Tail(events))
         IN  IF rest # <<>> /\ Head(rest) = Head(events).timestamp
             THEN rest ELSE <<Head(events).timestamp>> \o rest
AvailableTimesDistinct(events) == DistinctTimes(events)
AvailableTimes(events) == [i \in 1..Len(events) |-> events[i].timestamp]

\* A location record: type, name, and coords (a point is its own coordinate).
\* The location at position i of the list carries i coordinates <<i, 1>>..<<i, i>>.
Location(type, name, i) ==
    [type |-> type, name |-> name, coords |-> [k \in 1..i |-> <<i, k>>]]

\* loc.name.includes('GPS TRAIL')
GpsTrailNames == {"GPS TRAIL 1"}
IsGpsTrail(loc) == loc.name \in GpsTrailNames

RECURSIVE ExtractGpsTrail(_)
ExtractGpsTrail(locs) ==
    IF locs = <<>> THEN <<>>
    ELSE LET loc == Head(locs)
         IN  (IF loc.type = "line" /\ IsGpsTrail(loc) THEN loc.coords ELSE <<>>)
             \o ExtractGpsTrail(Tail(locs))

(***************************************************************************)
(* _addStaticLayers (lines 281-339)                                        *)
(***************************************************************************)
RECURSIVE AddStaticLayers(_, _, _)
AddStaticLayers(group, locs, i) ==
    IF i > Len(locs) THEN group
    ELSE LET loc == locs[i]
             g1 == IF loc.type = "point"
                   THEN Append(group, [layer |-> "circleMarker", loc |-> i]) ELSE group
             g2 == IF loc.type = "polygon"
                   THEN Append(g1, [layer |-> "polygon", loc |-> i]) ELSE g1
             g3 == IF loc.type = "line" /\ ~IsGpsTrail(loc)
                   THEN Append(g2, [layer |-> "polyline", loc |-> i]) ELSE g2
         IN  AddStaticLayers(g3, locs, i + 1)

(***************************************************************************)
(* _updateAnimatedElements (lines 380-464)                                 *)
(***************************************************************************)
\* LayerGroup.clearLayers()
ClearLayersKeeps(group) == group
ClearLayers(group) == <<>>

\* The scan of lines 388-395; the index is 0-based as in the source.
RECURSIVE ScanEvents(_, _, _, _)
ScanEventsStrict(events, currentTime, i, currentEventIndex) ==
    IF i >= Len(events) THEN currentEventIndex
    ELSE IF events[i + 1].timestamp < currentTime
         THEN ScanEvents(events, currentTime, i + 1, i)
         ELSE currentEventIndex
ScanEvents(events, currentTime, i, currentEventIndex) ==
    IF i >= Len(events) THEN currentEventIndex
    ELSE IF events[i + 1].timestamp <= currentTime
         THEN ScanEvents(events, currentTime, i + 1, i)
         ELSE currentEventIndex

CurrentEventIndex(events, currentTime) == ScanEvents(events, currentTime, 0, 0)

\* const currentEvent = this._timelineEvents[currentEventIndex]; undefined
\* (no marker) when the list is empty.  The marker is named by its event.
CurrentMarker(events, idx) ==
    IF idx + 1 <= Len(events) THEN <<[marker |-> events[idx + 1].id]>> ELSE <<>>

\* Math.floor(length * ((currentTime - startTime) / (endTime - startTime)))
\* with startTime and endTime undefined for an empty list of times.
FloorScaledReversed(length, times, currentTime) ==
    IF times = <<>> THEN NaN
    ELSE LET startTime == times[1]
             endTime == times[Len(times)]
         IN  IF endTime - startTime = 0
             THEN IF currentTime - startTime = 0 THEN NaN
                  ELSE IF currentTime - startTime > 0 THEN PosInf ELSE NegInf
             ELSE Num((length * (endTime - currentTime)) \div (endTime - startTime))
FloorScaled(length, times, currentTime) ==
    IF times = <<>> THEN NaN
    ELSE LET startTime == times[1]
             endTime == times[Len(times)]
         IN  IF endTime - startTime = 0
             THEN IF currentTime - startTime = 0 THEN NaN
                  ELSE IF currentTime - startTime > 0 THEN PosInf ELSE NegInf
             ELSE Num((length * (currentTime - startTime)) \div (endTime - startTime))

\* Math.max(1, x)
MathMax0(x) ==
    IF x.k = "NaN" THEN NaN
    ELSE IF x.k = "Infinity" THEN PosInf
    ELSE IF x.k = "-Infinity" THEN Num(0)
    ELSE Num(Max(0, x.v))
MathMax1(x) ==
    IF x.k = "NaN" THEN NaN
    ELSE IF x.k = "Infinity" THEN PosInf
    ELSE IF x.k = "-Infinity" THEN Num(1)
    ELSE Num(Max(1, x.v))

PointsToShow(coords, times, currentTime) ==
    MathMax1(FloorScaled(Len(coords), times, currentTime))

\* Array.prototype.slice(0, end) for end >= 0, NaN (as 0) or Infinity
Slice0(coords, end) ==
    IF end.k = "NaN" THEN <<>>
    ELSE IF end.k = "Infinity" THEN coords
    ELSE IF end.k = "-Infinity" THEN <<>>
    ELSE SubSeq(coords, 1, Min(Max(end.v, 0), Len(coords)))

\* if (visibleCoords.length > 1)
DrawsTrailAlways(visibleCoords) == Len(visibleCoords) >= 1
DrawsTrail(visibleCoords) == Len(visibleCoords) > 1

NoLocals == [ran |-> FALSE, time |-> 0, index |-> 0,
             points |-> Num(0), visible |-> <<>>, trail |-> FALSE]

\* The handler that ran last and what it fired on the layer.
Handler(op, fired) == [op |-> op, fired |-> fired]

UpdateAnimatedElements(currentTime) ==
    LET idx == CurrentEventIndex(_timelineEvents, currentTime)
        hasTrail == Len(_gpsTrailCoords) > 0
        pointsToShow == PointsToShow(_gpsTrailCoords, _availableTimes, currentTime)
        visibleCoords == Slice0(_gpsTrailCoords, pointsToShow)
    IN  /\ _animatedMarkers' =
              ClearLayers(_animatedMarkers) \o CurrentMarker(_timelineEvents, idx)
        /\ _gpsTrailLayer' =
              ClearLayers(_gpsTrailLayer) \o
              (IF hasTrail /\ DrawsTrail(visibleCoords)
               THEN <<[polyline |-> visibleCoords]>> ELSE <<>>)
        /\ last' = [ran |-> TRUE, time |-> currentTime, index |-> idx,
                    points |-> IF hasTrail THEN pointsToShow ELSE Num(0),
                    visible |-> IF hasTrail THEN visibleCoords ELSE <<>>,
                    trail |-> hasTrail]
        /\ handler' = Handler("_update", <<[type |-> "timeload", time |-> currentTime]>>)

(***************************************************************************)
(* _update (lines 373-378): the handler of the time control's "timeload"   *)
(* notification.  t is what getCurrentTime() returns: the control is       *)
(* scrubber-driven and shared with other layers, so t is any time.         *)
(***************************************************************************)
\* if (!this._map || !this._timeDimension) return;
UpdateGuardIgnoresMap == _timeDimension
UpdateGuard == _map /\ _timeDimension

_update(t) ==
    /\ IF UpdateGuard
       THEN UpdateAnimatedElements(t)
       ELSE /\ handler' = Handler("_update", <<>>)
            /\ UNCHANGED <<_animatedMarkers, _gpsTrailLayer, last>>
    /\ tdCalls' = <<>>
    /\ UNCHANGED <<inputEvents, _locations, _timelineEvents, _availableTimes,
                   _gpsTrailCoords, _map, _timeDimension, _staticLayers,
                   mapLayers, tdAvailableTimes, tdCurrentTime, nAdds>>
    /\ UNCHANGED exVars

(***************************************************************************)
(* onAdd (lines 256-272).  The base class and Leaflet set this._map, and   *)
(* adopt the map's time dimension when the layer has none (hasTd).         *)
(***************************************************************************)
AllGroups == {"static", "animated", "gpsTrail"}

onAdd(hasTd) ==
    /\ nAdds < MaxAdds
    /\ nAdds' = nAdds + 1
    /\ _map' = TRUE
    /\ _timeDimension' = (_timeDimension \/ hasTd)
    /\ _staticLayers' = AddStaticLayers(_staticLayers, _locations, 1)
    /\ mapLayers' = mapLayers \cup AllGroups
    /\ IF _timeDimension'
       THEN /\ tdAvailableTimes' = <<_availableTimes>>
            /\ IF Len(_availableTimes) > 0
               THEN /\ tdCurrentTime' = <<_availableTimes[1]>>
                    /\ tdCalls' = <<[call |-> "setAvailableTimes", arg |-> _availableTimes],
                                    [call |-> "setCurrentTime", arg |-> <<_availableTimes[1]>>]>>
               ELSE /\ tdCurrentTime' = tdCurrentTime
                    /\ tdCalls' = <<[call |-> "setAvailableTimes", arg |-> _availableTimes]>>
       ELSE /\ tdCalls' = <<>>
            /\ UNCHANGED <<tdAvailableTimes, tdCurrentTime>>
    /\ handler' = Handler("onAdd", <<>>)
    /\ UNCHANGED <<inputEvents, _locations, _timelineEvents, _availableTimes,
                   _gpsTrailCoords, _animatedMarkers, _gpsTrailLayer, last>>
    /\ UNCHANGED exVars

(***************************************************************************)
(* onRemove (lines 274-279): the layer leaves the map it is on.            *)
(***************************************************************************)
onRemove ==
    /\ _map
    /\ mapLayers' = mapLayers \ AllGroups
    /\ _map' = FALSE
    /\ tdCalls' = <<>>
    /\ handler' = Handler("onRemove", <<>>)
    /\ UNCHANGED <<inputEvents, _locations, _timelineEvents, _availableTimes,
                   _gpsTrailCoords, _timeDimension, _staticLayers,
                   _animatedMarkers, _gpsTrailLayer, tdAvailableTimes,
                   tdCurrentTime, last, nAdds>>
    /\ UNCHANGED exVars

(***************************************************************************)
(* The layer's specification: construction from any list of events and     *)
(* any list of locations, then any sequence of handlers.                   *)
(***************************************************************************)
\* Lists of events in any order, ties included.  Only the order of the
\* timestamps matters to the layer, so the timestamps of a list are the
\* first m event times for some m; the current time falls before, on,
\* between and after them.
Range(s) == {s[i] : i \in 1..Len(s)}
TimestampLists ==
    {ts \in SeqsUpTo(EventTimes, MaxEvents) :
        Range(ts) = {EventTime(k) : k \in 1..Cardinality(Range(ts))}}
EventLists == {[i \in 1..Len(ts) |-> Event(i, ts[i])] : ts \in TimestampLists}

LineKinds == {<<"line", "ROUTE">>, <<"line", "GPS TRAIL 1">>}
LocKinds == LineKinds \cup {<<"point", "SITE">>, <<"polygon", "AREA">>}
LocationListsOf(kinds) ==
    {[i \in 1..Len(ks) |-> Location(ks[i][1], ks[i][2], i)] : ks \in SeqsUpTo(kinds, MaxLocs)}

\* The animation reads the events and the trail, which only lines make; the
\* static layers read the locations alone.  So the inputs are every list of
\* events with every list of lines, and every list of locations with the
\* lists of at most one event.
Inputs ==
    (EventLists \X LocationListsOf(LineKinds))
    \cup ({e \in EventLists : Len(e) <= 1} \X LocationListsOf(LocKinds))

ExtractorIdle ==
    /\ given = <<>>
    /\ description = <<>>
    /\ timeStr = <<>>
    /\ timestamp = <<>>
    /\ kmlDoc = <<>>
    /\ locations = <<>>
    /\ pc = "idle"

Init ==
    /\ \E in \in Inputs :
          /\ inputEvents = in[1]
          /\ _locations = in[2]
    /\ _timelineEvents = SortEvents(inputEvents)
    /\ _availableTimes = AvailableTimes(_timelineEvents)
    /\ _gpsTrailCoords = ExtractGpsTrail(_locations)
    /\ _map = FALSE
    /\ _timeDimension = FALSE
    /\ _staticLayers = <<>>
    /\ _animatedMarkers = <<>>
    /\ _gpsTrailLayer = <<>>
    /\ mapLayers = {}
    /\ tdAvailableTimes = <<>>
    /\ tdCurrentTime = <<>>
    /\ tdCalls = <<>>
    /\ last = NoLocals
    /\ handler = Handler("initialize", <<>>)
    /\ nAdds = 0
    /\ ExtractorIdle

Next ==
    \/ \E hasTd \in BOOLEAN : onAdd(hasTd)
    \/ onRemove
    \/ \E t \in CurrentTimes : _update(t)

Spec == Init /\ [][Next]_vars

LayerIdle ==
    /\ inputEvents = <<>>
    /\ _locations = <<>>
    /\ _timelineEvents = <<>>
    /\ _availableTimes = <<>>
    /\ _gpsTrailCoords = <<>>
    /\ _map = FALSE
    /\ _timeDimension = FALSE
    /\ _staticLayers = <<>>
    /\ _animatedMarkers = <<>>
    /\ _gpsTrailLayer = <<>>
    /\ mapLayers = {}
    /\ tdAvailableTimes = <<>>
    /\ tdCurrentTime = <<>>
    /\ tdCalls = <<>>
    /\ last = NoLocals
    /\ handler = Handler("none", <<>>)
    /\ nAdds = 0

(***************************************************************************)
(* The time of a point, lines 105-107 of parseKmlLocations: the text is    *)
(* searched for a time, and the time found is resolved on the base date.   *)
(* The descriptions are a prefix, H:MM, spaces and a period marker in one  *)
(* of its spellings, or none.                                              *)
(***************************************************************************)
DigitChar(d) == CHOOSE c \in Digits : DigitValue(c) = d
HourText(h) == IF h < 10 THEN <<DigitChar(h)>> ELSE <<DigitChar(h \div 10), DigitChar(h % 10)>>
MinuteText(m) == <<DigitChar(m \div 10), DigitChar(m % 10)>>
RECURSIVE Spaces(_)
Spaces(n) == IF n = 0 THEN <<>> ELSE <<" ">> \o Spaces(n - 1)

ClockHours == 1..12
ClockMinutes == {0, 2, 45}
Prefixes == {<<>>, <<"a", "t", " ">>, <<"T", "i", "m", "e", ":", " ">>, <<"~">>,
             <<"a", "p", "p", "r", "o", "x", ".", " ">>}
Spellings == {"am", "AM", "a.m.", "A.M.", "pm", "PM", "p.m.", "P.M.", "none"}
SpellingText(sp) ==
    CASE sp = "am" -> <<"a", "m">> [] sp = "AM" -> <<"A", "M">>
      [] sp = "a.m." -> <<"a", ".", "m", ".">> [] sp = "A.M." -> <<"A", ".", "M", ".">>
      [] sp = "pm" -> <<"p", "m">> [] sp = "PM" -> <<"P", "M">>
      [] sp = "p.m." -> <<"p", ".", "m", ".">> [] sp = "P.M." -> <<"P", ".", "M", ".">>
      [] OTHER -> <<>>
GivenTimes ==
    [hour : ClockHours, minute : ClockMinutes, spaces : 0..MaxSpaces,
     spelling : Spellings, prefix : Prefixes]
TimeText(g) ==
    HourText(g.hour) \o <<":">> \o MinuteText(g.minute) \o Spaces(g.spaces)
    \o SpellingText(g.spelling)
DescriptionOf(g) == g.prefix \o TimeText(g)

TimeInit ==
    /\ given \in GivenTimes
    /\ description = DescriptionOf(given)
    /\ timeStr = Null
    /\ timestamp = Null
    /\ kmlDoc = <<>>
    /\ locations = <<>>
    /\ pc = "description"
    /\ LayerIdle

\* line 106
ExtractTime ==
    /\ pc = "description"
    /\ timeStr' = ExtractTimeFromDescription(description)
    /\ pc' = "timeStr"
    /\ UNCHANGED <<given, description, timestamp, kmlDoc, locations>>
    /\ UNCHANGED ctlVars

\* line 107
ParseTime ==
    /\ pc = "timeStr"
    /\ timestamp' = ParseTimeOnDate(timeStr)
    /\ pc' = "timestamp"
    /\ UNCHANGED <<given, description, timeStr, kmlDoc, locations>>
    /\ UNCHANGED ctlVars

TimeNext == ExtractTime \/ ParseTime

SpecTime == TimeInit /\ [][TimeNext]_vars

(***************************************************************************)
(* parseKmlLocations (lines 73-165).  The document is the list of its      *)
(* Placemark elements; a placemark has its name, description and styleUrl  *)
(* (null when the element is absent) and its Point, LineString and Polygon *)
(* elements in document order, each with or without a coordinates element. *)
(* The coordinates parsed from geometry j of placemark i are named <<i, j>>.*)
(***************************************************************************)
\* the records of one kind of geometry of placemark i, lines 122-140 and 143-161
RECURSIVE GeometryRecords(_, _, _, _, _)
GeometryRecords(head, geometries, i, j, tag) ==
    IF j > Len(geometries) THEN <<>>
    ELSE (IF geometries[j].tag = tag /\ geometries[j].coordinates
          THEN <<[type |-> IF tag = "LineString" THEN "line" ELSE "polygon",
                  name |-> head.name, description |-> head.description,
                  coords |-> <<i, j>>, timestamp |-> Null, timeStr |-> Null,
                  style |-> head.style]>>
          ELSE <<>>)
         \o GeometryRecords(head, geometries, i, j + 1, tag)

\* placemark.getElementsByTagName('Point')[0], lines 99-119
PointRecords(head, geometries, i) ==
    LET points == {j \in 1..Len(geometries) : geometries[j].tag = "Point"}
    IN  IF points = {} THEN <<>>
        ELSE LET j == CHOOSE j \in points : \A k \in points : j <= k
                 str == ExtractTimeFromDescription(head.description)
             IN  IF geometries[j].coordinates
                 THEN <<[type |-> "point", name |-> head.name,
                         description |-> head.description, coords |-> <<i, j>>,
                         timestamp |-> ParseTimeOnDate(str), timeStr |-> str,
                         style |-> head.style]>>
                 ELSE <<>>

\* lines 86-96: the defaults of absent elements
PlacemarkHead(placemark) ==
    [name |-> IF placemark.name = Null THEN "Unknown" ELSE placemark.name[1],
     description |-> IF placemark.description = Null THEN <<>> ELSE placemark.description[1],
     style |-> IF placemark.styleUrl = Null THEN "" ELSE placemark.styleUrl[1]]

\* one pass of the loop of lines 83-162
PlacemarkRecordsPolygonsFirst(placemark, i) ==
    LET head == PlacemarkHead(placemark)
    IN  PointRecords(head, placemark.geometries, i)
        \o GeometryRecords(head, placemark.geometries, i, 1, "Polygon")
        \o GeometryRecords(head, placemark.geometries, i, 1, "LineString")
PlacemarkRecords(placemark, i) ==
    LET head == PlacemarkHead(placemark)
    IN  PointRecords(head, placemark.geometries, i)
        \o GeometryRecords(head, placemark.geometries, i, 1, "LineString")
        \o GeometryRecords(head, placemark.geometries, i, 1, "Polygon")

RECURSIVE ParsePlacemarks(_, _)
ParsePlacemarks(placemarks, i) ==
    IF i > Len(placemarks) THEN <<>>
    ELSE PlacemarkRecords(placemarks[i], i) \o ParsePlacemarks(placemarks, i + 1)

ParseKmlLocations(doc) == ParsePlacemarks(doc, 1)

\* The documents: up to MaxGeometries geometry elements, each starting a new
\* placemark or continuing the last one.  A placemark either has no name,
\* description and styleUrl, or has all three.
GeometryTags == {"Point", "LineString", "Polygon"}
BareHead == [name |-> Null, description |-> Null, styleUrl |-> Null]
FullHead == [name |-> Some("GPS TRAIL 1"),
             description |-> Some(<<"S", "e", "e", "n", " ", "a", "t", " ", "9", ":", "0", "2", " ", "A", "M">>),
             styleUrl |-> Some("#icon-1")]

\* A document is written element by element: each geometry element either
\* opens a placemark (with one of the heads) or continues the open one.
Openings == {"same", "bare", "full"}
Written == [tag : GeometryTags, coordinates : BOOLEAN, opens : Openings]
RECURSIVE BuildDocument(_, _)
BuildDocument(written, k) ==
    IF k = 0 THEN <<>>
    ELSE LET doc == BuildDocument(written, k - 1)
             g == [tag |-> written[k].tag, coordinates |-> written[k].coordinates]
             h == IF written[k].opens = "full" THEN FullHead ELSE BareHead
         IN  IF written[k].opens = "same"
             THEN [doc EXCEPT ![Len(doc)].geometries = Append(@, g)]
             ELSE Append(doc, [name |-> h.name, description |-> h.description,
                               styleUrl |-> h.styleUrl, geometries |-> <<g>>])

KmlInit ==
    /\ \E n \in 0..MaxGeometries : \E written \in [1..n -> Written] :
          /\ n > 0 => written[1].opens # "same"
          /\ kmlDoc = BuildDocument(written, n)
    /\ locations = <<>>
    /\ pc = "document"
    /\ given = <<>>
    /\ description = <<>>
    /\ timeStr = <<>>
    /\ timestamp = <<>>
    /\ LayerIdle

ParseKml ==
    /\ pc = "document"
    /\ locations' = ParseKmlLocations(kmlDoc)
    /\ pc' = "locations"
    /\ UNCHANGED <<kmlDoc, given, description, timeStr, timestamp>>
    /\ UNCHANGED ctlVars

KmlNext == ParseKml

SpecKml == KmlInit /\ [][KmlNext]_vars

(***************************************************************************)
(* Properties of the layer                                                 *)
(***************************************************************************)
HasEvents == Len(_timelineEvents) >= 1
FirstTime == _timelineEvents[1].timestamp
LastTime == _timelineEvents[Len(_timelineEvents)].timestamp
TrailLength == Len(_gpsTrailCoords)
IsPrefix(s, t) == Len(s) <= Len(t) /\ s = SubSeq(t, 1, Len(s))
IsSorted(ts) == \A i \in 1..Len(ts) : \A j \in 1..Len(ts) : i < j => ts[i] <= ts[j]
Count(ts, v) == Cardinality({i \in 1..Len(ts) : ts[i] = v})

\* 0-based positions of the events that are not after time t
NotAfter(t) == {i \in 0..(Len(_timelineEvents) - 1) : _timelineEvents[i + 1].timestamp <= t}
LastNotAfter(t) ==
    IF NotAfter(t) = {} THEN 0
    ELSE CHOOSE i \in NotAfter(t) : \A j \in NotAfter(t) : j <= i

\* C1: with at least one event, an update at time t selects the last event in
\* sorted order whose timestamp is <= t (event 0 when t precedes all events,
\* the last event when t is at or after the last timestamp), and the marker
\* drawn is that event's.
C1_SelectsLastEventNotAfter ==
    (last.ran /\ HasEvents) =>
        /\ last.index = LastNotAfter(last.time)
        /\ last.time < FirstTime => last.index = 0
        /\ last.time >= LastTime => last.index = Len(_timelineEvents) - 1
        /\ _animatedMarkers = <<[marker |-> _timelineEvents[last.index + 1].id]>>

\* Three events at distinct times, t strictly between the second and the
\* third: the second event (index 1) is selected.
C1_Witness ==
    /\ last.ran
    /\ Len(_timelineEvents) = 3
    /\ _timelineEvents[1].timestamp < _timelineEvents[2].timestamp
    /\ _timelineEvents[2].timestamp < last.time
    /\ last.time < _timelineEvents[3].timestamp
    /\ last.index = 1

\* The overlay a single update at time t draws on empty groups.
MarkerAt(t) == CurrentMarker(_timelineEvents, CurrentEventIndex(_timelineEvents, t))
TrailAt(t) ==
    LET visibleCoords == Slice0(_gpsTrailCoords, PointsToShow(_gpsTrailCoords, _availableTimes, t))
    IN  IF TrailLength > 0 /\ Len(visibleCoords) > 1
        THEN <<[polyline |-> visibleCoords]>> ELSE <<>>

\* C2: after any sequence of updates the animated-marker group holds at most
\* one marker and the trail group at most one polyline, and both are what a
\* single update at the time of the last update draws (nothing accumulates).
C2_NoOverlayAccumulates ==
    /\ Len(_animatedMarkers) <= 1
    /\ Len(_gpsTrailLayer) <= 1
    /\ last.ran => /\ _animatedMarkers = MarkerAt(last.time)
                   /\ _gpsTrailLayer = TrailAt(last.time)
    /\ ~last.ran => _animatedMarkers = <<>> /\ _gpsTrailLayer = <<>>

C2_Witness ==
    /\ last.ran
    /\ Len(_animatedMarkers) = 1
    /\ Len(_gpsTrailLayer) = 1
    /\ handler.op = "_update"
    /\ nAdds = MaxAdds

\* C3: for a non-empty trail and first timestamp < last timestamp, an update
\* at t2 that follows an update at t1, with first <= t1 <= t2 <= last,
\* reveals at least as many points, and the earlier prefix is a prefix of
\* the later one.
C3_RevealCountMonotone ==
    [][(/\ last.ran /\ last'.ran /\ last.trail
        /\ HasEvents /\ FirstTime < LastTime
        /\ FirstTime <= last.time /\ last.time <= last'.time /\ last'.time <= LastTime)
       => /\ last.points.k = "num" /\ last'.points.k = "num"
          /\ last.points.v <= last'.points.v
          /\ IsPrefix(last.visible, last'.visible)]_vars

\* An update strictly inside the event range that reveals more than one point
\* and less than the whole trail.
C3_Witness ==
    /\ last.ran /\ last.trail /\ HasEvents
    /\ FirstTime < last.time /\ last.time < LastTime
    /\ last.points.k = "num"
    /\ last.points.v > 1 /\ last.points.v < TrailLength

\* C4: for a trail of at least 2 points and first timestamp < last timestamp,
\* an update at the first timestamp reveals exactly 1 point and draws no
\* polyline; an update at the last timestamp reveals all points and draws one
\* polyline over the whole trail.
C4_RevealAtEnds ==
    (last.ran /\ TrailLength >= 2 /\ HasEvents /\ FirstTime < LastTime) =>
        /\ last.time = FirstTime =>
              /\ last.points = Num(1)
              /\ last.visible = SubSeq(_gpsTrailCoords, 1, 1)
              /\ _gpsTrailLayer = <<>>
        /\ last.time = LastTime =>
              /\ last.points = Num(TrailLength)
              /\ last.visible = _gpsTrailCoords
              /\ _gpsTrailLayer = <<[polyline |-> _gpsTrailCoords]>>

C4_Witness ==
    /\ last.ran /\ TrailLength >= 2 /\ HasEvents /\ FirstTime < LastTime
    /\ last.time = FirstTime
    /\ _gpsTrailLayer = <<>>
    /\ Len(_animatedMarkers) = 1

\* floor(a / d) for d > 0, by its defining inequalities
FloorOfQuotient(a, d) ==
    CHOOSE q \in (0 - (a * a + 1))..(a * a + 1) : q * d <= a /\ a < (q + 1) * d
RevealCount(t) ==
    Max(1, FloorOfQuotient(TrailLength * (t - FirstTime), LastTime - FirstTime))

\* C5 as claimed: for every t (first timestamp < last timestamp) the reveal
\* count is max(1, floor(trailLength * (t - first)/(last - first))), and the
\* emitted prefix has exactly that many points.
C5_PrefixLengthIsRevealCount ==
    (last.ran /\ last.trail /\ HasEvents /\ FirstTime < LastTime) =>
        /\ last.points = Num(RevealCount(last.time))
        /\ Len(last.visible) = RevealCount(last.time)

\* C5: for every t the reveal count is max(1, floor(trailLength *
\* (t - first)/(last - first))) with no clamping of the quotient, and the
\* emitted prefix has min(reveal count, trailLength) points; when the first
\* and last timestamps are equal the quotient is NaN (t on them: nothing is
\* emitted), Infinity (t after: the whole trail) or -Infinity (t before: one
\* point), and with no events it is NaN.  The event selected is the first
\* for t before the events and the last for t after them.
C5_PrefixLengthIsClampedRevealCount ==
    (last.ran /\ last.trail) =>
        IF ~HasEvents
        THEN last.points = NaN /\ last.visible = <<>>
        ELSE /\ last.time < FirstTime => last.index = 0
             /\ last.time > LastTime => last.index = Len(_timelineEvents) - 1
             /\ IF FirstTime < LastTime
                THEN /\ last.points = Num(RevealCount(last.time))
                     /\ last.visible =
                           SubSeq(_gpsTrailCoords, 1, Min(RevealCount(last.time), TrailLength))
                ELSE /\ last.time = FirstTime => last.points = NaN /\ last.visible = <<>>
                     /\ last.time > FirstTime =>
                           last.points = PosInf /\ last.visible = _gpsTrailCoords
                     /\ last.time < FirstTime =>
                           last.points = Num(1) /\ last.visible = SubSeq(_gpsTrailCoords, 1, 1)

\* An update after the last event whose reveal count exceeds the trail.
C5_Witness ==
    /\ last.ran /\ last.trail /\ HasEvents /\ FirstTime < LastTime
    /\ last.time > LastTime
    /\ last.points.k = "num" /\ last.points.v > TrailLength
    /\ last.visible = _gpsTrailCoords
    /\ last.index = Len(_timelineEvents) - 1

\* C6: a time notification is a no-op unless the layer is on a map and has
\* its time control (clears nothing, draws nothing, fires nothing); when it
\* is, the notification recomputes the overlay and fires 'timeload'.  The
\* layer is in that state only after an onAdd that published its times.
C6_UpdateIsNoOpUntilReady ==
    /\ []((_map /\ _timeDimension) => (nAdds > 0 /\ tdAvailableTimes = <<_availableTimes>>))
    /\ [][handler'.op = "_update" =>
            IF _map /\ _timeDimension
            THEN /\ last'.ran
                 /\ handler'.fired = <<[type |-> "timeload", time |-> last'.time]>>
            ELSE /\ handler'.fired = <<>>
                 /\ UNCHANGED <<_animatedMarkers, _gpsTrailLayer, _staticLayers, last>>]_vars

\* A notification that arrived before the layer was ever added, and did nothing.
C6_Witness ==
    /\ handler.op = "_update"
    /\ handler.fired = <<>>
    /\ nAdds = 0
    /\ ~_map
    /\ ~last.ran

\* C7: onAdd with a time control publishes exactly the event timestamps, one
\* per event in non-decreasing order, then sets the current time to the
\* smallest; with no events it publishes the empty list and sets no time.
\* Without a time control it calls nothing.
InputTimestamps == [i \in 1..Len(inputEvents) |-> inputEvents[i].timestamp]
C7_OnAddPublishesTimes ==
    handler.op = "onAdd" =>
        IF _timeDimension
        THEN /\ Len(tdCalls) >= 1
             /\ tdCalls[1].call = "setAvailableTimes"
             /\ Len(tdCalls[1].arg) = Len(inputEvents)
             /\ IsSorted(tdCalls[1].arg)
             /\ \A v \in EventTimes : Count(tdCalls[1].arg, v) = Count(InputTimestamps, v)
             /\ tdAvailableTimes = <<tdCalls[1].arg>>
             /\ IF Len(inputEvents) > 0
                THEN /\ Len(tdCalls) = 2
                     /\ tdCalls[2].call = "setCurrentTime"
                     /\ \A i \in 1..Len(inputEvents) : tdCalls[2].arg[1] <= inputEvents[i].timestamp
                     /\ tdCalls[2].arg[1] \in Range(InputTimestamps)
                     /\ tdCurrentTime = tdCalls[2].arg
                ELSE /\ Len(tdCalls) = 1
                     /\ tdCurrentTime = <<>>
        ELSE tdCalls = <<>> /\ tdAvailableTimes = <<>>

\* onAdd with a time control, of a layer built from an unsorted list with a tie.
C7_Witness ==
    /\ handler.op = "onAdd"
    /\ _timeDimension
    /\ Len(tdCalls) = 2
    /\ Len(inputEvents) = 3
    /\ inputEvents # _timelineEvents
    /\ Cardinality(Range(InputTimestamps)) = 2

\* C8: in every state the event list is a permutation of the list passed to
\* initialize, non-decreasing by timestamp, with equal timestamps in their
\* original order; the available times are its timestamps in the same order,
\* and so is the list published to the time control.
C8_EventsStablySorted ==
    /\ Len(_timelineEvents) = Len(inputEvents)
    /\ {_timelineEvents[i].id : i \in 1..Len(_timelineEvents)} = 1..Len(inputEvents)
    /\ \A i \in 1..Len(_timelineEvents) :
          _timelineEvents[i] = inputEvents[_timelineEvents[i].id]
    /\ \A i \in 1..Len(_timelineEvents) : \A j \in 1..Len(_timelineEvents) :
          i < j =>
             /\ _timelineEvents[i].timestamp <= _timelineEvents[j].timestamp
             /\ _timelineEvents[i].timestamp = _timelineEvents[j].timestamp
                    => _timelineEvents[i].id < _timelineEvents[j].id
    /\ Len(_availableTimes) = Len(_timelineEvents)
    /\ \A i \in 1..Len(_timelineEvents) : _availableTimes[i] = _timelineEvents[i].timestamp
    /\ tdAvailableTimes # <<>> => tdAvailableTimes = <<_availableTimes>>

\* A list given out of order with a tie, after the layer was added and updated.
C8_Witness ==
    /\ Len(inputEvents) = 3
    /\ inputEvents[1].timestamp > inputEvents[2].timestamp
    /\ inputEvents[2].timestamp = inputEvents[3].timestamp
    /\ tdAvailableTimes # <<>>
    /\ last.ran

\* The location records that are drawn as static layers: every point, every
\* polygon, and every line that is not a GPS trail.
Renderable(loc) ==
    \/ loc.type \in {"point", "polygon"}
    \/ loc.type = "line" /\ ~IsGpsTrail(loc)
\* the number of layers the static group holds for the location at position i
StaticLayersOf(i) ==
    Cardinality({k \in 1..Len(_staticLayers) : _staticLayers[k].loc = i})

\* C11: once the layer has been added (and after any further onAdd / onRemove,
\* a re-add included), the static group holds exactly one layer for every
\* renderable location record and none for a GPS-trail line.
C11_OneStaticLayerPerRecord ==
    nAdds > 0 =>
        \A i \in 1..Len(_locations) :
            StaticLayersOf(i) = (IF Renderable(_locations[i]) THEN 1 ELSE 0)

\* What the layer does: every onAdd adds one more layer for every renderable
\* record, and nothing ever takes one out; a GPS-trail line gets none.
StaticLayersOnePerRecordPerAdd ==
    /\ \A i \in 1..Len(_locations) :
          StaticLayersOf(i) = (IF Renderable(_locations[i]) THEN nAdds ELSE 0)
    /\ \A k \in 1..Len(_staticLayers) : _staticLayers[k].loc \in 1..Len(_locations)

\* endTime - startTime of the trail-progress computation
ProgressDenominator == _availableTimes[Len(_availableTimes)] - _availableTimes[1]

\* C12: with at least one event and a non-empty trail, an update that reaches
\* the trail-progress computation divides by a strictly positive
\* lastTime - firstTime, and the reveal count it computes is a number.
C12_DenominatorPositive ==
    (last.ran /\ last.trail /\ HasEvents) =>
        /\ ProgressDenominator > 0
        /\ last.points.k = "num"

\* What the layer does: the denominator is never negative, and it is zero
\* exactly when every event has the same timestamp (a single event included);
\* the reveal count is then NaN or Infinity unless t precedes that timestamp.
DenominatorZeroOnOneTimestamp ==
    (last.ran /\ last.trail /\ HasEvents) =>
        /\ ProgressDenominator >= 0
        /\ ProgressDenominator = 0 <=> Cardinality(Range(_availableTimes)) = 1
        /\ ProgressDenominator = 0 =>
              /\ last.time = FirstTime => last.points = NaN
              /\ last.time > FirstTime => last.points = PosInf
              /\ last.time < FirstTime => last.points = Num(1)

(***************************************************************************)
(* Properties of the time parser                                          *)
(***************************************************************************)
IsPm(sp) == sp \in {"pm", "PM", "p.m.", "P.M."}
\* the 24-hour clock: pm adds 12 except at 12; 12 am is 0
StandardHour(hour, pm) ==
    IF pm THEN (IF hour = 12 THEN 12 ELSE hour + 12)
    ELSE (IF hour = 12 THEN 0 ELSE hour)

\* C10: every 12-hour time H:MM with a period marker resolves to the 24-hour
\* time of the standard rules, whatever the letter case, the whitespace
\* before the marker and the spelling of the marker (am/pm or a.m./p.m.).
C10_ParsesByStandardRules ==
    (pc = "timestamp" /\ given.spelling # "none") =>
        /\ timeStr = Some(TimeText(given))
        /\ timestamp = Some(StandardHour(given.hour, IsPm(given.spelling)) * 60 + given.minute)

\* The same for the markers spelled without dots, which the parser resolves
\* by the standard rules.
UndottedMarkersParseByStandardRules ==
    (pc = "timestamp" /\ given.spelling \in {"am", "AM", "pm", "PM"}) =>
        /\ timeStr = Some(TimeText(given))
        /\ timestamp = Some(StandardHour(given.hour, IsPm(given.spelling)) * 60 + given.minute)

(***************************************************************************)
(* Properties of the extraction                                            *)
(***************************************************************************)
\* the geometry elements of the document, as <<placemark, position>>
Elements(doc) ==
    {<<i, j>> \in (1..Len(doc)) \X (1..MaxGeometries) : j <= Len(doc[i].geometries)}
Before(a, b) == a[1] < b[1] \/ (a[1] = b[1] /\ a[2] < b[2])
TagOf(doc, el) == doc[el[1]].geometries[el[2]].tag
TypeOfTag(tag) ==
    CASE tag = "Point" -> "point" [] tag = "LineString" -> "line" [] OTHER -> "polygon"
AllHaveCoordinates(doc) == \A el \in Elements(doc) : doc[el[1]].geometries[el[2]].coordinates

\* each record carries the name, description and style of the placemark of
\* the geometry it was made from, and that geometry's type
SharesPlacemarkHead(doc, rec) ==
    LET pm == doc[rec.coords[1]]
    IN  /\ rec.coords \in Elements(doc)
        /\ rec.type = TypeOfTag(TagOf(doc, rec.coords))
        /\ rec.name = (IF pm.name = Null THEN "Unknown" ELSE pm.name[1])
        /\ rec.description = (IF pm.description = Null THEN <<>> ELSE pm.description[1])
        /\ rec.style = (IF pm.styleUrl = Null THEN "" ELSE pm.styleUrl[1])

\* one record per geometry element, in the order of the document
OnePerGeometryInOrder(doc, recs) ==
    /\ Len(recs) = Cardinality(Elements(doc))
    /\ {recs[k].coords : k \in 1..Len(recs)} = Elements(doc)
    /\ \A k \in 1..Len(recs) : \A l \in 1..Len(recs) :
          k < l => Before(recs[k].coords, recs[l].coords)
    /\ \A k \in 1..Len(recs) : SharesPlacemarkHead(doc, recs[k])

\* C9 as claimed: for every document whose geometries all have coordinates,
\* extraction yields exactly one record per geometry element, in the order
\* of appearance, each sharing its placemark's name, description and style.
C9_OneRecordPerGeometryInOrder ==
    (pc = "locations" /\ AllHaveCoordinates(kmlDoc)) =>
        OnePerGeometryInOrder(kmlDoc, locations)

\* the geometries extraction reads: of each placemark the first Point, every
\* LineString and every Polygon, when they have coordinates
Extracted(doc) ==
    {el \in Elements(doc) :
        /\ doc[el[1]].geometries[el[2]].coordinates
        /\ TagOf(doc, el) = "Point" =>
              \A j \in 1..(el[2] - 1) : TagOf(doc, <<el[1], j>>) # "Point"}
Rank(tag) == CASE tag = "Point" -> 1 [] tag = "LineString" -> 2 [] OTHER -> 3
\* placemark by placemark; in a placemark the Point, then LineStrings, then Polygons
ExtractedBefore(doc, a, b) ==
    \/ a[1] < b[1]
    \/ /\ a[1] = b[1]
       /\ \/ Rank(TagOf(doc, a)) < Rank(TagOf(doc, b))
          \/ Rank(TagOf(doc, a)) = Rank(TagOf(doc, b)) /\ a[2] < b[2]
\* a placemark holds at most one Point and lists Point, LineStrings, Polygons in this order
PointLinesPolygons(doc) ==
    \A a \in Elements(doc) : \A b \in Elements(doc) :
        (a[1] = b[1] /\ a[2] < b[2]) =>
            /\ Rank(TagOf(doc, a)) <= Rank(TagOf(doc, b))
            /\ ~(TagOf(doc, a) = "Point" /\ TagOf(doc, b) = "Point")

\* C9: extraction yields, placemark by placemark in document order, one
\* record for the placemark's first Point, then one per LineString, then one
\* per Polygon (a geometry without coordinates yields none), each sharing
\* the placemark's name, description and style; so it is one record per
\* geometry element in order of appearance whenever every geometry has
\* coordinates and each placemark holds at most one Point and lists its
\* Point before its LineStrings before its Polygons.
C9_RecordsByPlacemarkPointLinesPolygons ==
    pc = "locations" =>
        /\ Len(locations) = Cardinality(Extracted(kmlDoc))
        /\ {locations[k].coords : k \in 1..Len(locations)} = Extracted(kmlDoc)
        /\ \A k \in 1..Len(locations) : \A l \in 1..Len(locations) :
              k < l => ExtractedBefore(kmlDoc, locations[k].coords, locations[l].coords)
        /\ \A k \in 1..Len(locations) : SharesPlacemarkHead(kmlDoc, locations[k])
        /\ (AllHaveCoordinates(kmlDoc) /\ PointLinesPolygons(kmlDoc))
              => OnePerGeometryInOrder(kmlDoc, locations)

\* A placemark with a LineString and then a Polygon gave two records that
\* share its name, after a record of another placemark.
C9_Witness ==
    /\ pc = "locations"
    /\ AllHaveCoordinates(kmlDoc) /\ PointLinesPolygons(kmlDoc)
    /\ Len(kmlDoc) = 2
    /\ Len(locations) = 3
    /\ locations[2].type = "line" /\ locations[3].type = "polygon"
    /\ locations[2].coords[1] = locations[3].coords[1]
    /\ locations[2].name = locations[3].name
    /\ locations[1].name # locations[2].name

====
